---- MODULE Spec2Model ----
(***************************************************************************)
(* StackBox<T, Space> of smallbox (src/src/stackbox.rs): a fixed-capacity  *)
(* inline cell that stores a concrete value U behind a fat pointer to the  *)
(* unsized type T.  The model keeps the struct's two fields (ptr, space),  *)
(* the type parameter Space and the address at which the struct's `space`  *)
(* field currently lives, and follows new / box_up / resize / as_ptr /     *)
(* deref / deref_mut / drop and the comparison impls.                      *)
(*                                                                         *)
(* Sizes and addresses are in model bytes.  A value is a sequence of bytes *)
(* of length size_of::<U>(); a fat pointer is [addr, meta] where meta is   *)
(* the descriptor (vtable / length), which identifies the concrete type.   *)
(***************************************************************************)
EXTENDS Integers, Sequences, FiniteSets, TLC

\* ---------------------------------------------------------------- bounds
MaxCells == 3      \* StackBox structs ever created in a run
MaxVals  == 2      \* concrete values ever created in a run
WordBytes == 2     \* model bytes per machine word (size_of::<usize>())

\* ------------------------------------------------------- types and spaces
\* Concrete types U: descriptor d has byte size TypeSize[d] and required
\* alignment TypeAlign[d].  1: zero-sized, 2: one word, 3: one byte more than
\* a word, 4: two words with two-word alignment (over-aligned for a buffer
\* of words).
Types == 1..4
TypeSize  == <<0, WordBytes, WordBytes + 1, 2 * WordBytes>>
TypeAlign == <<1, WordBytes, 1, 2 * WordBytes>>

\* Capacity tags (module `space`): Un is n machine words, word aligned.
\* U1 and the default U4.
Spaces == {1, 4}
size_of_Space(S) == S * WordBytes
align_of_Space(S) == WordBytes

size_of(U) == TypeSize[U]
align_of(U) == TypeAlign[U]

Byte == {0, 1}
Uninit == 0 - 1    \* a byte of mem::uninitialized() storage
Junk == 0 - 2      \* a byte read through a dangling address

\* Addresses at which a StackBox's `space` field can live.  Both are word
\* aligned; only the second is aligned for a two-word-aligned type.
Addrs == {WordBytes, 2 * WordBytes}
\* Address of the by-value argument `val` inside new/box_up's frame.
CallSite == 0

\* The values a caller constructs from: the byte patterns of each type.
PatternsOf(U) == {[i \in 1..size_of(U) |-> b] : b \in Byte}
Values == UNION {{[type |-> U, bytes |-> p] : p \in PatternsOf(U)} : U \in Types}

CellIds == 1..MaxCells
ValIds == 1..MaxVals

NoArg == [type |-> 0, bytes |-> <<>>]
NoVal == [type |-> 0, bytes |-> <<>>, where |-> "gone"]
NoPtr == [addr |-> 0, meta |-> 0]
NoBox == [ptr |-> NoPtr, space |-> <<>>, tag |-> 0, at |-> 0]

VARIABLES
    cells,    \* CellIds -> the StackBox struct: ptr, space, its Space, its address
    status,   \* CellIds -> "unused" | "live" | "forgotten" | "dropped"
    holds,    \* CellIds -> the value id whose bytes the cell was given (0: none)
    vals,     \* ValIds -> the caller's view of each value and who owns it
    fin,      \* ValIds -> how many times the value's finalize logic has run
    last,     \* what the last operation was given and what it returned
    crashed   \* the process has trapped on a misaligned access

vars == <<cells, status, holds, vals, fin, last, crashed>>

\* ------------------------------------------------------------ raw memory
uninitialized(S) == [i \in 1..size_of_Space(S) |-> Uninit]

\* ptr::copy_nonoverlapping(src, dst, 1) for an element of n bytes.
copy_nonoverlapping(src, dst, n) ==
    [i \in 1..Len(dst) |->
        IF i <= n THEN (IF i <= Len(src) THEN src[i] ELSE Junk) ELSE dst[i]]

\* The live cells whose buffer is at address a.
CellAt(a) == {c \in CellIds : status[c] = "live" /\ cells[c].at = a}

\* *h : the bytes a fat pointer designates, size given by its descriptor.
load(h) ==
    IF CellAt(h.addr) = {}
    THEN [i \in 1..size_of(h.meta) |-> Junk]
    ELSE LET buf == cells[CHOOSE c \in CellAt(h.addr) : TRUE].space
         IN [i \in 1..size_of(h.meta) |-> IF i <= Len(buf) THEN buf[i] ELSE Junk]

\* The buffer after *h = bytes, for a buffer that lives at h.addr.
store(buf, h, bytes) == copy_nonoverlapping(bytes, buf, size_of(h.meta))

Misaligned(h) == h.addr % align_of(h.meta) # 0

\* ------------------------------------------------------------- StackBox
\* box_up without the mem::forget(val): val is dropped when box_up returns.
box_up_leaving_val(val, S, at) ==
    [box |-> [ptr |-> [addr |-> CallSite, meta |-> val.type],
              space |-> copy_nonoverlapping(val.bytes, uninitialized(S), size_of(val.type)),
              tag |-> S, at |-> at],
     forgot |-> FALSE]

box_up(val, S, at) ==
    LET ptr == [addr |-> CallSite, meta |-> val.type]
        space == copy_nonoverlapping(val.bytes, uninitialized(S), size_of(val.type))
    IN [box |-> [ptr |-> ptr, space |-> space, tag |-> S, at |-> at],
        forgot |-> TRUE]

\* new with >= in place of > in the size check.
new_off_by_one(val, S, at) ==
    IF size_of(val.type) >= size_of_Space(S)
    THEN [ok |-> FALSE, err |-> val, box |-> NoBox, val_dropped |-> FALSE]
    ELSE LET b == box_up(val, S, at)
         IN [ok |-> TRUE, err |-> NoArg, box |-> b.box, val_dropped |-> ~b.forgot]

\* new that moves the value into a buffer before checking its size.
new_box_up_first(val, S, at) ==
    LET b == box_up(val, S, at)
    IN IF size_of(val.type) > size_of_Space(S)
       THEN [ok |-> FALSE,
             err |-> [val EXCEPT !.bytes = [i \in 1..size_of(val.type) |-> Uninit]],
             box |-> b.box, val_dropped |-> FALSE]
       ELSE [ok |-> TRUE, err |-> NoArg, box |-> b.box, val_dropped |-> ~b.forgot]

\* new that also rejects a value whose alignment exceeds the buffer's.
new_checking_align(val, S, at) ==
    IF size_of(val.type) > size_of_Space(S) \/ align_of(val.type) > align_of_Space(S)
    THEN [ok |-> FALSE, err |-> val, box |-> NoBox, val_dropped |-> FALSE]
    ELSE LET b == box_up(val, S, at)
         IN [ok |-> TRUE, err |-> NoArg, box |-> b.box, val_dropped |-> ~b.forgot]

new(val, S, at) ==
    IF size_of(val.type) > size_of_Space(S)
    THEN [ok |-> FALSE, err |-> val, box |-> NoBox, val_dropped |-> FALSE]
    ELSE LET b == box_up(val, S, at)
         IN [ok |-> TRUE, err |-> NoArg, box |-> b.box, val_dropped |-> ~b.forgot]

\* resize that compares the stored value's size with the new capacity.
resize_by_value_size(self, ToSpace, at) ==
    IF size_of(self.ptr.meta) > size_of_Space(ToSpace)
    THEN [ok |-> FALSE, box |-> self, self_dropped |-> FALSE]
    ELSE [ok |-> TRUE,
          box |-> [ptr |-> self.ptr,
                   space |-> copy_nonoverlapping(self.space, uninitialized(ToSpace),
                                                 size_of_Space(self.tag)),
                   tag |-> ToSpace, at |-> at],
          self_dropped |-> FALSE]

\* resize that copies into the new buffer before checking the capacities.
resize_copy_first(self, ToSpace, at) ==
    LET space == copy_nonoverlapping(self.space, uninitialized(ToSpace),
                                     size_of_Space(self.tag))
        moved == [ptr |-> self.ptr, space |-> space, tag |-> ToSpace, at |-> at]
    IN IF size_of_Space(self.tag) > size_of_Space(ToSpace)
       THEN [ok |-> FALSE, box |-> [moved EXCEPT !.at = self.at], self_dropped |-> FALSE]
       ELSE [ok |-> TRUE, box |-> moved, self_dropped |-> FALSE]

\* resize without the mem::forget(self): self is dropped when resize returns.
resize_without_forget(self, ToSpace, at) ==
    IF size_of_Space(self.tag) > size_of_Space(ToSpace)
    THEN [ok |-> FALSE, box |-> self, self_dropped |-> FALSE]
    ELSE [ok |-> TRUE,
          box |-> [ptr |-> self.ptr,
                   space |-> copy_nonoverlapping(self.space, uninitialized(ToSpace),
                                                 size_of_Space(self.tag)),
                   tag |-> ToSpace, at |-> at],
          self_dropped |-> TRUE]

\* resize with source and destination of the copy swapped.
resize_copy_reversed(self, ToSpace, at) ==
    IF size_of_Space(self.tag) > size_of_Space(ToSpace)
    THEN [ok |-> FALSE, box |-> self, self_dropped |-> FALSE]
    ELSE [ok |-> TRUE,
          box |-> [ptr |-> self.ptr, space |-> uninitialized(ToSpace),
                   tag |-> ToSpace, at |-> at],
          self_dropped |-> FALSE]

resize(self, ToSpace, at) ==
    IF size_of_Space(self.tag) > size_of_Space(ToSpace)
    THEN [ok |-> FALSE, box |-> self, self_dropped |-> FALSE]
    ELSE LET ptr == self.ptr
             space == copy_nonoverlapping(self.space, uninitialized(ToSpace),
                                          size_of_Space(self.tag))
         IN [ok |-> TRUE,
             box |-> [ptr |-> ptr, space |-> space, tag |-> ToSpace, at |-> at],
             self_dropped |-> FALSE]

\* as_ptr without the overwrite of the address word.
as_ptr_unpatched(self) == self.ptr

\* The stored fat pointer with its address word overwritten by &self.space.
as_ptr(self) == [self.ptr EXCEPT !.addr = self.at]

deref(self) == as_ptr(self)

deref_mut(self) == as_ptr(self)

\* The handle ptr::drop_in_place is called on.
drop(self) == deref_mut(self)

\* ---------------------------------------------------- the value's own impls
RECURSIVE seq_cmp(_, _)
\* Ord of the underlying value: lexicographic on its bytes. -1, 0 or 1.
seq_cmp(x, y) ==
    IF x = <<>> /\ y = <<>> THEN 0
    ELSE IF x = <<>> THEN 0 - 1
    ELSE IF y = <<>> THEN 1
    ELSE IF Head(x) < Head(y) THEN 0 - 1
    ELSE IF Head(x) > Head(y) THEN 1
    ELSE seq_cmp(Tail(x), Tail(y))

value_eq(x, y) == x = y

\* ------------------------------------------------- forwarded capabilities
\* eq that compares the two handles instead of the values behind them.
eq_by_handle(self, other) == deref(self) = deref(other)

eq(self, other) == value_eq(load(deref(self)), load(deref(other)))

ne(self, other) == ~value_eq(load(deref(self)), load(deref(other)))

cmp(self, other) == seq_cmp(load(deref(self)), load(deref(other)))

partial_cmp(self, other) == seq_cmp(load(deref(self)), load(deref(other)))

lt(self, other) == seq_cmp(load(deref(self)), load(deref(other))) < 0

le(self, other) == seq_cmp(load(deref(self)), load(deref(other))) <= 0

ge(self, other) == seq_cmp(load(deref(self)), load(deref(other))) >= 0

gt(self, other) == seq_cmp(load(deref(self)), load(deref(other))) > 0

\* ------------------------------------------------------------------ state
\* The shape of the state: each cell is the struct { ptr, space } with its
\* Space and address, each value is owned by a cell, the caller, or gone.
TypeOK ==
    /\ \A c \in CellIds :
        /\ status[c] \in {"unused", "live", "forgotten", "dropped"}
        /\ holds[c] \in 0..MaxVals
        /\ status[c] = "live" =>
            /\ cells[c].tag \in Spaces /\ cells[c].at \in Addrs
            /\ cells[c].ptr.meta \in Types
            /\ Len(cells[c].space) = size_of_Space(cells[c].tag)
        /\ status[c] # "live" => cells[c] = [ptr |-> [addr |-> 0, meta |-> 0],
                                             space |-> <<>>, tag |-> 0, at |-> 0]
    /\ \A v \in ValIds : vals[v].where \in {"none", "caller", "cell", "gone"}
    /\ \A v \in ValIds : fin[v] \in 0..2
    /\ crashed \in BOOLEAN

NoLast == [op |-> "init", ok |-> TRUE, cell |-> 0, val |-> 0, to |-> 0,
           h |-> NoPtr, read |-> <<>>, before |-> NoBox, arg |-> NoArg, ord |-> 0]

Init ==
    /\ cells = [c \in CellIds |-> NoBox]
    /\ status = [c \in CellIds |-> "unused"]
    /\ holds = [c \in CellIds |-> 0]
    /\ vals = [v \in ValIds |-> [NoVal EXCEPT !.where = "none"]]
    /\ fin = [v \in ValIds |-> 0]
    /\ last = NoLast
    /\ crashed = FALSE

FreshCell == {c \in CellIds : status[c] = "unused" /\ \A d \in CellIds : d < c => status[d] # "unused"}
FreshVal == {v \in ValIds : vals[v].where = "none" /\ \A w \in ValIds : w < v => vals[w].where # "none"}
FreeAddrs == {a \in Addrs : CellAt(a) = {}}

\* The values whose finalize logic a drop_in_place through h runs.
Finalized(h) == {holds[c] : c \in CellAt(h.addr)}
Bump(f, vs) == [v \in ValIds |-> IF v \in vs THEN f[v] + 1 ELSE f[v]]

\* StackBox::<T, S>::new(val) called by a caller that owns a fresh value.
New(val, S, at) ==
    /\ ~crashed
    /\ FreshVal # {} /\ FreshCell # {}
    /\ \E v \in FreshVal, c \in FreshCell :
        LET r == new(val, S, at)
            entry == [type |-> val.type, bytes |-> val.bytes, where |-> "cell"]
        IN /\ IF r.ok
              THEN /\ cells' = [cells EXCEPT ![c] = r.box]
                   /\ status' = [status EXCEPT ![c] = "live"]
                   /\ holds' = [holds EXCEPT ![c] = v]
                   /\ vals' = [vals EXCEPT ![v] = entry]
              ELSE /\ UNCHANGED <<cells, status, holds>>
                   /\ vals' = [vals EXCEPT ![v] = [entry EXCEPT !.where = "caller",
                                                                !.bytes = r.err.bytes]]
           \* a val that box_up did not forget is dropped when box_up returns
           /\ fin' = IF r.val_dropped THEN Bump(fin, {v}) ELSE fin
           /\ last' = [NoLast EXCEPT !.op = "new", !.ok = r.ok, !.val = v, !.to = S,
                                     !.cell = IF r.ok THEN c ELSE 0,
                                     !.before = r.box, !.arg = val]
    /\ UNCHANGED crashed

\* cell.resize::<ToSpace>() on a live cell; the result is placed at `at`.
Resize(c, ToSpace, at) ==
    /\ ~crashed
    /\ status[c] = "live"
    /\ LET self == cells[c]
           r == resize(self, ToSpace, at)
       IN /\ IF r.ok
             THEN \E n \in FreshCell :
                  /\ cells' = [cells EXCEPT ![n] = r.box, ![c] = NoBox]
                  /\ status' = [status EXCEPT ![n] = "live",
                                       ![c] = IF r.self_dropped THEN "dropped" ELSE "forgotten"]
                  /\ holds' = [holds EXCEPT ![n] = holds[c]]
             ELSE /\ cells' = [cells EXCEPT ![c] = r.box]
                  /\ status' = [status EXCEPT ![c] = IF r.self_dropped THEN "dropped" ELSE "live"]
                  /\ UNCHANGED holds
          \* a self that was not forgotten is dropped when resize returns
          /\ fin' = IF r.self_dropped THEN Bump(fin, Finalized(drop(self))) ELSE fin
          /\ last' = [NoLast EXCEPT !.op = "resize", !.ok = r.ok, !.cell = c,
                                    !.val = holds[c], !.to = ToSpace,
                                    !.before = self]
    /\ UNCHANGED <<vals, crashed>>

\* &*cell : read access through the reconstructed handle.
Read(c) ==
    /\ ~crashed
    /\ status[c] = "live"
    /\ LET h == deref(cells[c])
       IN last' = [NoLast EXCEPT !.op = "read", !.cell = c, !.h = h, !.read = load(h)]
    /\ UNCHANGED <<cells, status, holds, vals, fin, crashed>>

\* *cell = bytes : read-write access through the reconstructed handle.
Write(c, bytes) ==
    /\ ~crashed
    /\ status[c] = "live"
    /\ bytes \in PatternsOf(cells[c].ptr.meta)
    /\ LET h == deref_mut(cells[c])
       IN /\ cells' = [d \in CellIds |->
                          IF d \in CellAt(h.addr)
                          THEN [cells[d] EXCEPT !.space = store(cells[d].space, h, bytes)]
                          ELSE cells[d]]
          /\ last' = [NoLast EXCEPT !.op = "write", !.h = h]
    /\ vals' = [vals EXCEPT ![holds[c]].bytes = bytes]
    /\ UNCHANGED <<status, holds, fin, crashed>>

\* The cell goes out of scope: Drop::drop runs the value's finalize logic.
Drop(c) ==
    /\ ~crashed
    /\ status[c] = "live"
    /\ LET h == drop(cells[c])
       IN /\ fin' = Bump(fin, Finalized(h))
          /\ last' = [NoLast EXCEPT !.op = "drop", !.cell = c, !.h = h]
    /\ status' = [status EXCEPT ![c] = "dropped"]
    /\ cells' = [cells EXCEPT ![c] = NoBox]
    /\ vals' = [vals EXCEPT ![holds[c]] = NoVal]
    /\ UNCHANGED <<holds, crashed>>

\* The caller moves the StackBox: the struct's bytes are copied to another slot.
Move(c, at) ==
    /\ ~crashed
    /\ status[c] = "live"
    /\ at \in FreeAddrs
    /\ cells' = [cells EXCEPT ![c].at = at]
    /\ last' = [NoLast EXCEPT !.op = "move", !.cell = c]
    /\ UNCHANGED <<status, holds, vals, fin, crashed>>

\* The caller drops a value that new handed back in Err.
CallerDrop(v) ==
    /\ ~crashed
    /\ vals[v].where = "caller"
    /\ fin' = Bump(fin, {v})
    /\ vals' = [vals EXCEPT ![v] = NoVal]
    /\ last' = [NoLast EXCEPT !.op = "caller_drop"]
    /\ UNCHANGED <<cells, status, holds, crashed>>

\* a == b, a.cmp(&b) on two cells of the same Space.
Compare(a, b) ==
    /\ ~crashed
    /\ status[a] = "live" /\ status[b] = "live"
    /\ cells[a].tag = cells[b].tag
    /\ last' = [NoLast EXCEPT !.op = "compare", !.ok = eq(cells[a], cells[b]),
                              !.ord = cmp(cells[a], cells[b])]
    /\ UNCHANGED <<cells, status, holds, vals, fin, crashed>>

\* A dereference of a handle whose address does not satisfy the alignment of
\* the stored type is undefined: besides behaving like an aligned access (the
\* actions above) it can fault.  `ran` says whether a faulting drop got as far
\* as the finalize logic's observable effect.
Trap(c, ran) ==
    /\ ~crashed
    /\ status[c] = "live"
    /\ Misaligned(as_ptr(cells[c]))
    /\ crashed' = TRUE
    /\ fin' = IF ran THEN Bump(fin, Finalized(drop(cells[c]))) ELSE fin
    /\ last' = [NoLast EXCEPT !.op = "trap", !.h = as_ptr(cells[c])]
    /\ UNCHANGED <<cells, status, holds, vals>>

Next ==
    \/ \E val \in Values, S \in Spaces, at \in FreeAddrs : New(val, S, at)
    \/ \E c \in CellIds, S \in Spaces, at \in FreeAddrs : Resize(c, S, at)
    \/ \E c \in CellIds : Read(c)
    \/ \E c \in CellIds, bytes \in UNION {PatternsOf(U) : U \in Types} : Write(c, bytes)
    \/ \E c \in CellIds : Drop(c)
    \/ \E c \in CellIds, at \in Addrs : Move(c, at)
    \/ \E v \in ValIds : CallerDrop(v)
    \/ \E a \in CellIds, b \in CellIds : Compare(a, b)
    \/ \E c \in CellIds, ran \in BOOLEAN : Trap(c, ran)

Spec == Init /\ [][Next]_vars

\* ------------------------------------------------------------ properties
Live == {c \in CellIds : status[c] = "live"}
ValueOf(c) == vals[holds[c]]
Resized(c) == \E d \in CellIds : status[d] = "forgotten" /\ holds[d] = holds[c]
CallerKept(v) == \A c \in CellIds : holds[c] # v

\* C1: StackBox::new succeeds if and only if the value's byte size is at most
\* the capacity's byte size (equal size succeeds, one byte more fails, a
\* zero-sized value always succeeds).
C1_NewIffFits ==
    last.op = "new" =>
        /\ last.ok <=> size_of(last.arg.type) <= size_of_Space(last.to)
        /\ size_of(last.arg.type) = size_of_Space(last.to) => last.ok
        /\ size_of(last.arg.type) = size_of_Space(last.to) + 1 => ~last.ok
        /\ size_of(last.arg.type) = 0 => last.ok

C1_Witness ==
    /\ last.op = "new" /\ last.ok
    /\ size_of(last.arg.type) = size_of_Space(last.to)
    /\ status[last.cell] = "live"

\* C2: the finalize logic of a value has run at most once in every state,
\* never while its owner is still alive, and exactly once when the cell that
\* owns it (or the caller that kept it) has destroyed it; N destroyed cells
\* give N finalize observations.
C2_ExactlyOnceFinalize ==
    \A v \in ValIds :
        /\ fin[v] <= 1
        /\ vals[v].where = "gone" => fin[v] = 1
        /\ ~crashed =>
             fin[v] = Cardinality({c \in CellIds : status[c] = "dropped" /\ holds[c] = v})
                      + (IF vals[v].where = "gone" /\ CallerKept(v) THEN 1 ELSE 0)

C2_Witness ==
    /\ \A v \in ValIds : fin[v] = 1 /\ ~CallerKept(v)
    /\ \E c \in CellIds : status[c] = "dropped" /\ Resized(c)

\* C3: a rejected new hands the caller its value back unchanged: no cell is
\* created, no buffer is written, nothing is finalized by the call, and the
\* caller finalizes the value exactly once later.
C3_RejectionIsTotal ==
    /\ last.op = "new" /\ ~last.ok =>
        /\ last.cell = 0 /\ last.before = NoBox
        /\ CallerKept(last.val)
        /\ vals[last.val] = [type |-> last.arg.type, bytes |-> last.arg.bytes,
                             where |-> "caller"]
        /\ fin[last.val] = 0
    /\ \A v \in ValIds :
        /\ vals[v].where = "caller" => fin[v] = 0 /\ CallerKept(v)
        /\ vals[v].where = "gone" /\ CallerKept(v) => fin[v] = 1

C3_Witness ==
    /\ last.op = "new" /\ ~last.ok
    /\ size_of(last.arg.type) > size_of_Space(last.to)
    /\ vals[last.val].where = "caller"

\* C4: resize succeeds if and only if the new capacity is at least the
\* current capacity, whatever the size of the stored value.
C4_ResizeByCapacities ==
    last.op = "resize" =>
        (last.ok <=> size_of_Space(last.to) >= size_of_Space(last.before.tag))

C4_Witness ==
    /\ last.op = "resize" /\ ~last.ok
    /\ size_of_Space(last.to) < size_of_Space(last.before.tag)
    /\ size_of(last.before.ptr.meta) > 0
    /\ size_of(last.before.ptr.meta) <= size_of_Space(last.to)

\* C5: a failed resize gives back the original cell unchanged (capacity,
\* buffer, descriptor), still live, still reading as the same value, with
\* nothing finalized; dropping a cell finalizes its value exactly once.
C5_FailedResizeUnchanged ==
    /\ last.op = "resize" /\ ~last.ok =>
        /\ status[last.cell] = "live"
        /\ cells[last.cell] = last.before
        /\ holds[last.cell] = last.val
        /\ vals[last.val].where = "cell"
        /\ load(deref(cells[last.cell])) = vals[last.val].bytes
        /\ fin[last.val] = 0
    /\ last.op = "drop" => fin[holds[last.cell]] = 1

C5_Witness ==
    /\ last.op = "resize" /\ ~last.ok
    /\ status[last.cell] = "live"
    /\ size_of(cells[last.cell].ptr.meta) > 0
    /\ load(deref(cells[last.cell])) = vals[last.val].bytes

\* C6: every value is owned by at most one live cell; a successful resize
\* consumes the original cell without finalizing, and a value that went
\* through resizes is finalized by the dropped cell only.
C6_NoDoubleOwnership ==
    /\ \A v \in ValIds :
         Cardinality({c \in CellIds : status[c] = "live" /\ holds[c] = v}) <= 1
    /\ last.op = "resize" /\ last.ok =>
        /\ status[last.cell] = "forgotten"
        /\ fin[last.val] = 0
        /\ \E n \in Live : holds[n] = last.val /\ n # last.cell
    /\ \A c \in CellIds :
         status[c] = "forgotten" /\ ~crashed =>
            fin[holds[c]] =
                Cardinality({d \in CellIds : status[d] = "dropped" /\ holds[d] = holds[c]})

C6_Witness ==
    /\ last.op = "resize" /\ last.ok
    /\ status[last.cell] = "forgotten"
    /\ \E n \in Live : holds[n] = last.val /\ size_of(cells[n].ptr.meta) > 0

\* C7: what is read from a live cell is the value it was constructed from
\* (or, after read-write access, the value last written), after any
\* sequence of reads, moves and successful or failed resizes.
C7_RoundTrip ==
    /\ \A c \in Live : load(deref(cells[c])) = ValueOf(c).bytes
    /\ last.op = "read" => last.read = ValueOf(last.cell).bytes

C7_Witness ==
    /\ last.op = "read"
    /\ Resized(last.cell)
    /\ size_of(last.h.meta) > 0
    /\ last.read = ValueOf(last.cell).bytes

\* C8: comparing two cells gives the result of comparing their values,
\* wherever the two buffers are.
C8_Delegation ==
    \A a \in Live, b \in Live :
        cells[a].tag = cells[b].tag =>
            LET x == ValueOf(a).bytes
                y == ValueOf(b).bytes
            IN /\ eq(cells[a], cells[b]) = value_eq(x, y)
               /\ ne(cells[a], cells[b]) = ~value_eq(x, y)
               /\ cmp(cells[a], cells[b]) = seq_cmp(x, y)
               /\ partial_cmp(cells[a], cells[b]) = seq_cmp(x, y)
               /\ lt(cells[a], cells[b]) = (seq_cmp(x, y) < 0)
               /\ le(cells[a], cells[b]) = (seq_cmp(x, y) <= 0)
               /\ ge(cells[a], cells[b]) = (seq_cmp(x, y) >= 0)
               /\ gt(cells[a], cells[b]) = (seq_cmp(x, y) > 0)

C8_Witness ==
    /\ last.op = "compare" /\ last.ok
    /\ \E a \in Live, b \in Live :
        /\ a # b /\ cells[a].tag = cells[b].tag /\ cells[a].at # cells[b].at
        /\ size_of(cells[a].ptr.meta) > 0
        /\ ValueOf(a).bytes = ValueOf(b).bytes
        /\ eq(cells[a], cells[b])

\* C9: the handle rebuilt from a live cell has the cell's current buffer
\* address (not the call-site address it was moved from) and the descriptor
\* of the value it was constructed from; so has every handle an operation used.
C9_HandleReconstruction ==
    /\ \A c \in Live :
        /\ as_ptr(cells[c]).addr = cells[c].at
        /\ as_ptr(cells[c]).addr # CallSite
        /\ as_ptr(cells[c]).meta = ValueOf(c).type
        /\ deref(cells[c]) = as_ptr(cells[c])
        /\ deref_mut(cells[c]) = as_ptr(cells[c])
        /\ drop(cells[c]) = as_ptr(cells[c])
    /\ last.op \in {"read", "write", "drop", "trap"} =>
        last.h.addr \in Addrs /\ last.h.meta \in Types
    /\ last.op = "read" =>
        last.h = [addr |-> cells[last.cell].at, meta |-> ValueOf(last.cell).type]

C9_Witness ==
    /\ last.op = "move"
    /\ Resized(last.cell)
    /\ as_ptr(cells[last.cell]).addr = cells[last.cell].at
    /\ cells[last.cell].ptr.addr = CallSite

\* C10: new does not look at alignment: a value that fits by size is accepted
\* even when its required alignment exceeds the buffer's.
C10_AlignmentUnchecked ==
    last.op = "new" /\ size_of(last.arg.type) <= size_of_Space(last.to)
                    /\ align_of(last.arg.type) > align_of_Space(last.to)
        => last.ok /\ status[last.cell] = "live"

C10_Witness ==
    /\ last.op = "new" /\ last.ok
    /\ align_of(last.arg.type) > align_of_Space(last.to)
    /\ Misaligned(as_ptr(cells[last.cell]))

====
